---- MODULE Spec2Model ----
(***************************************************************************)
(* The sequential download queue of src/queue_manager.py (QueueManager),   *)
(* the download callback of src/downloader.py (DownloadService.            *)
(* process_download) that the drain loop awaits, and the status rows that  *)
(* src/database.py keeps for each job.                                     *)
(*                                                                         *)
(* The program runs on one asyncio event loop: code between two awaits is  *)
(* one atomic step.  Every action below is one such step.  Each add() that *)
(* finds the engine idle creates a _process_queue task; the task created   *)
(* by the admission of job t is task t.                                    *)
(***************************************************************************)
EXTENDS Integers, Sequences, FiniteSets, TLC

\* ------------------------------------------------------------------ bounds
MaxJobs == 2
MaxFaults == 1

\* --------------------------------------------------------------- constants
NoJob == 0
NoSid == 0
NotFound == -1

JobIds == 1..MaxJobs
Sids == {NoSid, 1, 2}

QUEUED == "queued"
DOWNLOADING == "downloading"
COMPLETED == "completed"
FAILED == "failed"
NoItem == "none"

\* str(e) of the exceptions that can be raised while a job is executed.
CreateError == "db error: insert"
EmitStartError == "emit error: download_status"
ExecutorError == "download error"
NoFileError == "Nenhum arquivo foi baixado"
UpdateError == "db error: update"
EmitCompleteError == "emit error: download_complete"
EmitErrorError == "emit error: download_error"

\* models.py: the values of DownloadFormat, VideoQuality and AudioQuality.
DownloadFormat == {"video", "audio"}
VideoQuality == {"360p", "480p", "720p", "1080p", "1440p", "2160p", "best"}
AudioQuality == {"128", "192", "320"}

\* The job specifications a client may send: the request of the defaults, and
\* two with one unrecognized field each.
DefaultRequest == [format |-> "video", video_quality |-> "best", audio_quality |-> "192"]
Requests ==
    {DefaultRequest,
     [DefaultRequest EXCEPT !.format = "gif"],
     [DefaultRequest EXCEPT !.video_quality = "4320p"]}

\* downloaded_bytes and total_bytes values reported to progress_hook.
DownloadedValues == {1, 3}
TotalValues == {0, 2}

\* QueuedDownload.title: None, or the title the preview found.
NoTitle == ""
Titles == {NoTitle, "title"}

\* What preview_service.get_preview does for the URL of a request.
Probes == {"found", "raises"}

\* The events process_download emits.
DownloadStatusEvent == "download_status"
DownloadProgressEvent == "download_progress"
DownloadCompleteEvent == "download_complete"
DownloadErrorEvent == "download_error"

NoRecord == [status |-> NoItem, progress |-> 0, error |-> "", completed_at |-> FALSE]

VARIABLES
    admitted,     \* number of jobs admitted so far; job ids are 1..admitted
    items,        \* QueueManager._items: the job ids of the live index, in insertion order
    queue,        \* QueueManager._queue: the asyncio.Queue of pending items
    status,       \* QueuedDownload.status of each item object
    progress,     \* QueuedDownload.progress of each item object
    sid,          \* QueuedDownload.sid of each item object
    title,        \* QueuedDownload.title of each item object
    current,      \* QueueManager._current
    processing,   \* QueueManager._processing
    pc,           \* position of each _process_queue task
    item,         \* local `item` of each _process_queue task
    exc,          \* local `e` of process_download's except block, as str(e)
    db,           \* the downloads table: one row per job id
    dispatched,   \* history: the jobs the drain loop took from the queue, in order
    cancelled,    \* history: the ids for which cancel returned True
    faults,       \* number of exceptions raised so far
    fault,        \* history: str(e) of the first exception raised while the job ran
    persisted,    \* history: the statuses update_download_status was called with
    emitted,      \* history: the events sio.emit sent, as <<event, job id, room>>
    ret           \* what the handler of the last step answered, if it was a call of
                  \* cancel or a request that was turned down

vars == <<admitted, items, queue, status, progress, sid, title, current, processing,
          pc, item, exc, db, dispatched, cancelled, faults, fault, persisted, emitted,
          ret>>

\* ret: no such call in the last step, the value cancel returned, or the
\* request was turned down before a job was made of it.
NoCall == "none"
ReturnedTrue == "True"
ReturnedFalse == "False"
Rejected == "rejected"

\* ----------------------------------------------------------------- helpers
SeqToSet(s) == {s[i] : i \in 1..Len(s)}

\* Mutant: the record is kept in the index as a tombstone.
WithoutNothing(s, x) == s

RECURSIVE Without(_, _)
Without(s, x) ==
    IF s = <<>> THEN <<>>
    ELSE IF Head(s) = x THEN Without(Tail(s), x)
    ELSE <<Head(s)>> \o Without(Tail(s), x)

RECURSIVE Filter(_, _)
Filter(s, keep) ==
    IF s = <<>> THEN <<>>
    ELSE IF Head(s) \in keep THEN <<Head(s)>> \o Filter(Tail(s), keep)
    ELSE Filter(Tail(s), keep)

InItems(j) == j \in SeqToSet(items)

Init ==
    /\ admitted = 0
    /\ items = <<>>
    /\ queue = <<>>
    /\ status = [j \in JobIds |-> NoItem]
    /\ progress = [j \in JobIds |-> 0]
    /\ sid = [j \in JobIds |-> NoSid]
    /\ title = [j \in JobIds |-> NoTitle]
    /\ current = NoJob
    /\ processing = FALSE
    /\ pc = [t \in JobIds |-> "none"]
    /\ item = [t \in JobIds |-> NoJob]
    /\ exc = [t \in JobIds |-> ""]
    /\ db = [j \in JobIds |-> NoRecord]
    /\ dispatched = <<>>
    /\ cancelled = {}
    /\ faults = 0
    /\ fault = [j \in JobIds |-> ""]
    /\ persisted = [j \in JobIds |-> {}]
    /\ emitted = {}
    /\ ret = NoCall

\* ------------------------------------------------ the asyncio event loop
\* Mutant: line 231 of downloader.py calls run_download() on the event loop
\* itself, so no handler runs before the download has ended.
EventLoopBlockedByRun == \E t \in JobIds : pc[t] = "run"

\* downloader.py line 231: the download runs in the executor's thread and the
\* callback awaits it, so the event loop stays free for the handlers.
EventLoopBlocked == FALSE

\* ------------------------------------------------------- QueueManager.add
\* Mutant: the record keeps the progress of an earlier use of the object.
QueuedDownloadStale(s, ti) ==
    [status |-> QUEUED, progress |-> 100, sid |-> s, title |-> ti]

\* Lines 24-38 and 88-98: the new record, with the defaults of the dataclass.
QueuedDownload(s, ti) ==
    [status |-> QUEUED, progress |-> 0, sid |-> s, title |-> ti]

\* Mutant: the record is not entered in the live index.
IndexPutSkipped(its, j) == its

\* Mutant: the new record goes to the front of the index.
IndexPutFirst(its, j) == <<j>> \o its

\* Line 100: the record is entered in _items, at the end of the dict's order.
IndexPut(its, j) == Append(its, j)

\* Mutant: the new item is put at the head, as a LifoQueue would.
QueuePutFront(q, j) == <<j>> \o q

\* The put on the unbounded asyncio.Queue appends at the tail.
QueuePut(q, j) == Append(q, j)

add(s, ti) ==
    /\ ~EventLoopBlocked
    /\ admitted < MaxJobs
    /\ LET j == admitted + 1
           r == QueuedDownload(s, ti) IN
        /\ admitted' = j
        /\ status' = [status EXCEPT ![j] = r.status]
        /\ progress' = [progress EXCEPT ![j] = r.progress]
        /\ sid' = [sid EXCEPT ![j] = r.sid]
        /\ title' = [title EXCEPT ![j] = r.title]
        /\ items' = IndexPut(items, j)
        /\ queue' = QueuePut(queue, j)
        /\ pc' = IF ~processing THEN [pc EXCEPT ![j] = "scheduled"] ELSE pc
        /\ ret' = NoCall
    /\ UNCHANGED <<current, processing, item, exc, db, dispatched, cancelled, faults,
                   fault,
                   persisted, emitted>>

\* ------------------------- main.start_download, main.socket_start_download
\* Mutant: format and qualities are taken as plain strings, unchecked.
DownloadRequestUnchecked(req) == TRUE

\* models.py lines 96-105 and main.py lines 392-394: every field must be a
\* value of its enumeration.
DownloadRequest(req) ==
    /\ req.format \in DownloadFormat
    /\ req.video_quality \in VideoQuality
    /\ req.audio_quality \in AudioQuality

\* The validation error (HTTP 422) or the ValueError of the enum constructor
\* ends the handler before queue_manager.add is reached.
Reject ==
    /\ ~EventLoopBlocked
    /\ ret' = Rejected
    /\ UNCHANGED <<admitted, items, queue, status, progress, sid, current, processing,
                   pc, item, exc, db, dispatched, cancelled, faults, fault,
                   persisted, title, emitted>>

\* Mutant: the preview is awaited outside any try, its exception ends the
\* handler.
ProbeFailureFatal(probe) == probe = "raises"

\* main.py lines 179-185 and 405-409: an exception of the preview is caught.
ProbeFatal(probe) == FALSE

\* The title the handler passes to add: None when the preview raised.
PreviewTitle(probe) == IF probe = "found" THEN "title" ELSE NoTitle

\* POST /api/download: the job is added without a socket id.
start_download_probed(req, probe) ==
    IF DownloadRequest(req) /\ ~ProbeFatal(probe)
    THEN add(NoSid, PreviewTitle(probe))
    ELSE Reject

start_download(req) == \E probe \in Probes : start_download_probed(req, probe)

\* The 'start_download' socket event: the job is added with the client's sid.
socket_start_download_probed(s, req, probe) ==
    IF DownloadRequest(req) /\ ~ProbeFatal(probe)
    THEN add(s, PreviewTitle(probe))
    ELSE Reject

socket_start_download(s, req) ==
    \E probe \in Probes : socket_start_download_probed(s, req, probe)

\* ---------------------------------------------------- QueueManager.cancel
\* Mutant: a job that is being downloaded is accepted for cancellation too.
CancelAllowedWhileDownloading(j) == status[j] \in {QUEUED, DOWNLOADING}

\* Line 205: the authoritative check on the record found in the live index.
CancelAllowed(j) == status[j] = QUEUED

\* Mutant: the record is marked FAILED before its status is looked at.
cancel_marks_first(j) ==
    /\ ~EventLoopBlocked
    /\ IF InItems(j)
       THEN /\ status' = [status EXCEPT ![j] = FAILED]
            /\ IF CancelAllowed(j)
               THEN /\ items' = Without(items, j)
                    /\ cancelled' = cancelled \cup {j}
                    /\ ret' = ReturnedTrue
               ELSE /\ ret' = ReturnedFalse
                    /\ UNCHANGED <<items, cancelled>>
       ELSE /\ ret' = ReturnedFalse
            /\ UNCHANGED <<status, items, cancelled>>
    /\ UNCHANGED <<admitted, queue, progress, sid, current, processing, pc, item,
                   exc, db, dispatched, faults, fault,
                   persisted, title, emitted>>

\* True removes the record from _items only; the asyncio.Queue keeps the item.
cancel(j) ==
    /\ ~EventLoopBlocked
    /\ IF InItems(j) /\ CancelAllowed(j)
       THEN /\ status' = [status EXCEPT ![j] = FAILED]
            /\ items' = Without(items, j)
            /\ cancelled' = cancelled \cup {j}
            /\ ret' = ReturnedTrue
       ELSE /\ ret' = ReturnedFalse
            /\ UNCHANGED <<status, items, cancelled>>
    /\ UNCHANGED <<admitted, queue, progress, sid, current, processing, pc, item,
                   exc, db, dispatched, faults, fault,
                   persisted, title, emitted>>

\* ------------------------------------------- QueueManager.clear_completed
\* Mutant: everything that is not waiting is swept, the Active record too.
to_remove_all_but_queued(j) == status[j] # QUEUED

\* Lines 257-260: the records the sweep removes.
to_remove(j) == status[j] \in {COMPLETED, FAILED}

clear_completed ==
    /\ items' = Filter(items, {j \in JobIds : ~to_remove(j)})
    /\ ret' = NoCall
    /\ UNCHANGED <<admitted, queue, status, progress, sid, current, processing, pc,
                   item, exc, db, dispatched, cancelled, faults, fault,
                   persisted, title, emitted>>

\* ------------------------------- QueueManager.update_progress / mark_* 
update_progress(st, pr, j, p) ==
    IF InItems(j)
    THEN [status |-> [st EXCEPT ![j] = DOWNLOADING], progress |-> [pr EXCEPT ![j] = p]]
    ELSE [status |-> st, progress |-> pr]

\* Mutant: line 188 is missing, the progress is left as the last report.
mark_completed_status_only(st, pr, j) ==
    IF InItems(j)
    THEN [status |-> [st EXCEPT ![j] = COMPLETED], progress |-> pr]
    ELSE [status |-> st, progress |-> pr]

mark_completed(st, pr, j) ==
    IF InItems(j)
    THEN [status |-> [st EXCEPT ![j] = COMPLETED], progress |-> [pr EXCEPT ![j] = 100]]
    ELSE [status |-> st, progress |-> pr]

mark_failed(st, j) ==
    IF InItems(j) THEN [st EXCEPT ![j] = FAILED] ELSE st

\* ---------------------------------------------- QueueManager.get_position
\* Rank of j among the records of `its` whose status is QUEUED, from `position`.
RECURSIVE PositionFrom(_, _, _)
PositionFrom(its, j, position) ==
    IF its = <<>> THEN NotFound
    ELSE IF status[Head(its)] = QUEUED
         THEN IF Head(its) = j THEN position
              ELSE PositionFrom(Tail(its), j, position + 1)
         ELSE PositionFrom(Tail(its), j, position)

\* Mutant: line 161 is dropped, every record of the index counts for a rank.
RECURSIVE PositionAmongAll(_, _, _)
PositionAmongAll(its, j, position) ==
    IF its = <<>> THEN NotFound
    ELSE IF Head(its) = j THEN position
    ELSE PositionAmongAll(Tail(its), j, position + 1)

get_position_counting_all(j) ==
    IF j = current THEN 0 ELSE PositionAmongAll(items, j, 1)

get_position(j) ==
    IF j = current THEN 0 ELSE PositionFrom(items, j, 1)

\* -------------------------------------------------- QueueManager.get_item
\* The record of the index with this id, or NoJob for None.
get_item(j) == IF InItems(j) THEN j ELSE NoJob

\* ------------------------------------------ QueueManager.get_queue_status
\* A QueueItem of the view.
QueueItem(j, position, pr) ==
    [job_id |-> j, status |-> status[j], position |-> position, progress |-> pr]

\* Lines 219-231: first the current item, when it is in the index.
CurrentItem ==
    IF current # NoJob /\ InItems(current)
    THEN <<QueueItem(current, 0, progress[current])>>
    ELSE <<>>

\* Mutant: line 235 is dropped, every record of the index is listed.
RECURSIVE QueuedItemsFromAll(_, _)
QueuedItemsFromAll(its, position) ==
    IF its = <<>> THEN <<>>
    ELSE <<QueueItem(Head(its), position, 0)>>
             \o QueuedItemsFromAll(Tail(its), position + 1)

\* Lines 234-247: then the QUEUED records in the order of the index.
RECURSIVE QueuedItemsFrom(_, _)
QueuedItemsFrom(its, position) ==
    IF its = <<>> THEN <<>>
    ELSE IF status[Head(its)] = QUEUED
         THEN <<QueueItem(Head(its), position, 0)>>
                  \o QueuedItemsFrom(Tail(its), position + 1)
         ELSE QueuedItemsFrom(Tail(its), position)

get_queue_status ==
    LET its == CurrentItem \o QueuedItemsFrom(items, 1)
    IN [items |-> its, total |-> Len(its), processing |-> current]

\* ------------------------------------------- QueueManager._process_queue
\* Mutant: the guard of line 113 is missing.
AlreadyProcessingIgnored == FALSE

\* Line 113: a task that finds the flag set returns at once.
AlreadyProcessing == processing

process_queue_start(t) ==
    /\ pc[t] = "scheduled"
    /\ IF AlreadyProcessing
       THEN /\ pc' = [pc EXCEPT ![t] = "none"]
            /\ UNCHANGED processing
       ELSE /\ pc' = [pc EXCEPT ![t] = "get"]
            /\ processing' = TRUE
    /\ ret' = NoCall
    /\ UNCHANGED <<admitted, items, queue, status, progress, sid, current, item,
                   exc, db, dispatched, cancelled, faults, fault,
                   persisted, title, emitted>>

\* asyncio.Queue.get returns the item at the head.
QueueGet(q) == Head(q)
QueueRest(q) == Tail(q)

\* Lines 123-136: the item is taken, becomes the current job and is marked
\* DOWNLOADING; the callback then runs up to its first await.
process_queue_dispatch(t) ==
    /\ pc[t] = "get"
    /\ queue # <<>>
    /\ LET j == QueueGet(queue) IN
        /\ queue' = QueueRest(queue)
        /\ current' = j
        /\ status' = [status EXCEPT ![j] = DOWNLOADING]
        /\ item' = [item EXCEPT ![t] = j]
        /\ dispatched' = Append(dispatched, j)
    /\ pc' = [pc EXCEPT ![t] = "create_record"]
    /\ ret' = NoCall
    /\ UNCHANGED <<admitted, items, progress, sid, processing, exc, db, cancelled,
                   faults, fault,
                   persisted, title, emitted>>

\* Mutant: a task created by add may have its first step after any timer.
ReadyTasksOvertaken(t) == TRUE

\* Lines 106-107 and 123-126: a task made by create_task is ready at once and
\* the event loop runs what is ready in the order it became ready, so the
\* first step of every such task is over when the timer of the wait fires.
ReadyTasksRan(t) == \A u \in JobIds \ {t} : pc[u] # "scheduled"

\* Mutant: the loop ends at the first timeout, whatever the queue holds.
QueueEmptyUnchecked(q) == TRUE

\* Line 129: self._queue.empty().
QueueEmpty(q) == q = <<>>

\* Lines 127-131 and 150-151: the one second wait times out; the loop ends when
\* the queue is empty and goes round again otherwise.
process_queue_timeout(t) ==
    /\ pc[t] = "get"
    /\ ReadyTasksRan(t)
    /\ IF QueueEmpty(queue)
       THEN /\ pc' = [pc EXCEPT ![t] = "none"]
            /\ processing' = FALSE
       ELSE UNCHANGED <<pc, processing>>
    /\ ret' = NoCall
    /\ UNCHANGED <<admitted, items, queue, status, progress, sid, current, item,
                   exc, db, dispatched, cancelled, faults, fault,
                   persisted, title, emitted>>

\* Lines 146-148 and the return to the top of `while True`.
LoopFinally(t) ==
    /\ current' = NoJob
    /\ pc' = [pc EXCEPT ![t] = "get"]
    /\ item' = [item EXCEPT ![t] = NoJob]
    /\ exc' = [exc EXCEPT ![t] = ""]
    /\ UNCHANGED processing

\* Mutant: the exception is caught outside `while True`, so the loop ends.
LoopExceptBreaks(t) ==
    /\ status' = [status EXCEPT ![item[t]] = FAILED]
    /\ current' = NoJob
    /\ pc' = [pc EXCEPT ![t] = "none"]
    /\ item' = [item EXCEPT ![t] = NoJob]
    /\ exc' = [exc EXCEPT ![t] = ""]
    /\ processing' = FALSE

\* Lines 143-148: an exception that leaves the callback marks the item FAILED.
LoopExcept(t) ==
    /\ status' = [status EXCEPT ![item[t]] = FAILED]
    /\ LoopFinally(t)

\* ----------------------------------- DownloadService.process_download
\* The first exception of a job's execution is the one that makes it fail.
NoteFault(j, msg) == IF fault[j] = "" THEN [fault EXCEPT ![j] = msg] ELSE fault

\* The executor run may raise, or leave no file so that line 237 raises.
ExecutorFault(j, msg) ==
    /\ faults < MaxFaults
    /\ faults' = faults + 1
    /\ fault' = NoteFault(j, msg)

\* A Record Store call may raise.
DbFault(j, msg) ==
    /\ faults < MaxFaults
    /\ faults' = faults + 1
    /\ fault' = NoteFault(j, msg)

\* _emit sends nothing, and so cannot raise, when the item has no sid.
EmitFault(j, msg) ==
    /\ sid[j] # NoSid
    /\ faults < MaxFaults
    /\ faults' = faults + 1
    /\ fault' = NoteFault(j, msg)

\* Mutant: the event is sent to every connected client.
EmitToAll(em, event, j) == em \cup {<<event, j, s>> : s \in Sids \ {NoSid}}

\* downloader.py lines 45-48: _emit sends the event to the room of the item's
\* sid, and nothing when the item has none.
Emit(em, event, j) ==
    IF sid[j] # NoSid THEN em \cup {<<event, j, sid[j]>>} ELSE em

\* Mutant: sio.emit raises after the event has gone out.
EmitRaisedAfterSending(em, event, j) == Emit(em, event, j)

\* An emit that raises has sent nothing.
EmitRaised(em, event, j) == em

\* database.create_download_record: the row starts as "queued".
create_download_record(j) ==
    [db EXCEPT ![j] = [status |-> QUEUED, progress |-> 0, error |-> "",
                       completed_at |-> FALSE]]

\* database.update_download_status: an UPDATE of the row of job j, if any.
\* pr is <<>> for progress=None, err is "" for error_message=None.
update_download_status(j, st, pr, err) ==
    IF db[j].status = NoItem THEN db
    ELSE [db EXCEPT ![j] =
            [status |-> st,
             progress |-> IF pr = <<>> THEN @.progress ELSE pr[1],
             error |-> IF err = "" THEN @.error ELSE err,
             completed_at |-> IF st = COMPLETED THEN TRUE ELSE @.completed_at]]

\* Lines 132-142: the row is created before the try block; a Record Store
\* fault here leaves the callback.
process_download_create(t) ==
    /\ pc[t] = "create_record"
    /\ \E ok \in BOOLEAN :
        IF ok
        THEN /\ db' = create_download_record(item[t])
             /\ pc' = [pc EXCEPT ![t] = "emit_start"]
             /\ UNCHANGED <<status, current, item, exc, processing, faults, fault>>
        ELSE /\ DbFault(item[t], CreateError)
             /\ LoopExcept(t)
             /\ UNCHANGED db
    /\ ret' = NoCall
    /\ UNCHANGED <<admitted, items, queue, progress, sid, dispatched, cancelled,
                   persisted, title, emitted>>

\* Lines 144-149: the 'fetching_info' event, also before the try block.
process_download_emit_start(t) ==
    /\ pc[t] = "emit_start"
    /\ \E ok \in BOOLEAN :
        IF ok
        THEN /\ emitted' = Emit(emitted, DownloadStatusEvent, item[t])
             /\ pc' = [pc EXCEPT ![t] = "run"]
             /\ UNCHANGED <<status, current, item, exc, processing, faults, fault>>
        ELSE /\ emitted' = EmitRaised(emitted, DownloadStatusEvent, item[t])
             /\ EmitFault(item[t], EmitStartError)
             /\ LoopExcept(t)
    /\ ret' = NoCall
    /\ UNCHANGED <<admitted, items, queue, progress, sid, db, dispatched, cancelled,
                   persisted, title>>

\* Line 174: percentage = downloaded / total * 100 if total else 0.
Percentage(downloaded, total) ==
    IF total # 0 THEN (downloaded * 100) \div total ELSE 0

\* Lines 168-195: progress_hook, called by the executor thread while it runs.
progress_hook(t) ==
    /\ pc[t] = "run"
    /\ \E downloaded \in DownloadedValues, total \in TotalValues :
        LET r == update_progress(status, progress, item[t], Percentage(downloaded, total))
        IN /\ status' = r.status
           /\ progress' = r.progress
    /\ emitted' = Emit(emitted, DownloadProgressEvent, item[t])
    /\ ret' = NoCall
    /\ UNCHANGED <<admitted, items, queue, sid, current, processing, pc, item, exc,
                   db, dispatched, cancelled, faults, fault,
                   persisted, title>>

\* Lines 309-312: the except block starts by marking the job failed.
EnterExcept(t, msg) ==
    /\ status' = mark_failed(status, item[t])
    /\ exc' = [exc EXCEPT ![t] = msg]
    /\ pc' = [pc EXCEPT ![t] = "persist_failed"]

\* Lines 229-254: the executor run ends: it returns with files on disk, it
\* raises, or it returns and no file is found.
process_download_run(t) ==
    /\ pc[t] = "run"
    /\ \E res \in {"ok", ExecutorError, NoFileError} :
        IF res = "ok"
        THEN /\ pc' = [pc EXCEPT ![t] = "persist_completed"]
             /\ UNCHANGED <<status, exc, faults, fault>>
        ELSE /\ ExecutorFault(item[t], res)
             /\ EnterExcept(t, res)
    /\ ret' = NoCall
    /\ UNCHANGED <<admitted, items, queue, progress, sid, current, processing, item,
                   db, dispatched, cancelled,
                   persisted, title, emitted>>

\* Lines 256-269 and 289-298: the row is updated to COMPLETED, then the record
\* is marked completed; a Record Store fault enters the except block instead.
process_download_persist_completed(t) ==
    /\ pc[t] = "persist_completed"
    /\ \E ok \in BOOLEAN :
        IF ok
        THEN LET r == mark_completed(status, progress, item[t]) IN
             /\ db' = update_download_status(item[t], COMPLETED, <<100>>, "")
             /\ status' = r.status
             /\ progress' = r.progress
             /\ pc' = [pc EXCEPT ![t] = "emit_complete"]
             /\ UNCHANGED <<exc, faults, fault>>
        ELSE /\ DbFault(item[t], UpdateError)
             /\ EnterExcept(t, UpdateError)
             /\ UNCHANGED <<db, progress>>
    /\ persisted' = [persisted EXCEPT ![item[t]] = @ \cup {COMPLETED}]
    /\ ret' = NoCall
    /\ UNCHANGED <<admitted, items, queue, sid, current, processing, item,
                   dispatched, cancelled, title, emitted>>

\* Lines 271-276 and 300-307: the 'download_complete' event; the callback
\* returns after it, and a delivery fault enters the except block.
process_download_emit_complete(t) ==
    /\ pc[t] = "emit_complete"
    /\ \E ok \in BOOLEAN :
        IF ok
        THEN /\ emitted' = Emit(emitted, DownloadCompleteEvent, item[t])
             /\ LoopFinally(t)
             /\ UNCHANGED <<status, faults, fault>>
        ELSE /\ emitted' = EmitRaised(emitted, DownloadCompleteEvent, item[t])
             /\ EmitFault(item[t], EmitCompleteError)
             /\ EnterExcept(t, EmitCompleteError)
             /\ UNCHANGED <<current, item, processing>>
    /\ ret' = NoCall
    /\ UNCHANGED <<admitted, items, queue, progress, sid, db, dispatched, cancelled,
                   persisted, title>>

\* Lines 314-320: the row is updated to FAILED with str(e); a Record Store
\* fault here leaves the callback.
process_download_persist_failed(t) ==
    /\ pc[t] = "persist_failed"
    /\ \E ok \in BOOLEAN :
        IF ok
        THEN /\ db' = update_download_status(item[t], FAILED, <<>>, exc[t])
             /\ pc' = [pc EXCEPT ![t] = "emit_error"]
             /\ UNCHANGED <<status, current, item, exc, processing, faults, fault>>
        ELSE /\ DbFault(item[t], UpdateError)
             /\ LoopExcept(t)
             /\ UNCHANGED db
    /\ persisted' = [persisted EXCEPT ![item[t]] = @ \cup {FAILED}]
    /\ ret' = NoCall
    /\ UNCHANGED <<admitted, items, queue, progress, sid, dispatched, cancelled, title, emitted>>

\* Lines 322-325: the 'download_error' event; the callback returns after it.
process_download_emit_error(t) ==
    /\ pc[t] = "emit_error"
    /\ \E ok \in BOOLEAN :
        IF ok
        THEN /\ emitted' = Emit(emitted, DownloadErrorEvent, item[t])
             /\ LoopFinally(t)
             /\ UNCHANGED <<status, faults, fault>>
        ELSE /\ emitted' = EmitRaised(emitted, DownloadErrorEvent, item[t])
             /\ EmitFault(item[t], EmitErrorError)
             /\ LoopExcept(t)
    /\ ret' = NoCall
    /\ UNCHANGED <<admitted, items, queue, progress, sid, db, dispatched, cancelled,
                   persisted, title>>

\* ------------------------------------------------------ the specification
\* The steps of the drain loop and of the callback it awaits.
Drain ==
    \/ \E t \in JobIds : process_queue_start(t)
    \/ \E t \in JobIds : process_queue_dispatch(t)
    \/ \E t \in JobIds : process_queue_timeout(t)
    \/ \E t \in JobIds : process_download_create(t)
    \/ \E t \in JobIds : process_download_emit_start(t)
    \/ \E t \in JobIds : progress_hook(t)
    \/ \E t \in JobIds : process_download_run(t)
    \/ \E t \in JobIds : process_download_persist_completed(t)
    \/ \E t \in JobIds : process_download_emit_complete(t)
    \/ \E t \in JobIds : process_download_persist_failed(t)
    \/ \E t \in JobIds : process_download_emit_error(t)

\* The handlers, called by socket clients of the sessions in `sessions` and by
\* HTTP clients, with the previews ending as in `probes`.
Handlers(sessions, probes) ==
    \/ \E req \in Requests, probe \in probes : start_download_probed(req, probe)
    \/ \E s \in sessions, req \in Requests, probe \in probes :
          socket_start_download_probed(s, req, probe)
    \/ \E j \in JobIds : cancel(j)

\* The engine with one socket session and previews that find a title.  The
\* title of a record and the room of an event are read by no step, so every
\* run of the engine with more sessions or failing previews differs from one
\* of these in the values of title, sid and emitted only.
Next == Handlers({1}, {"found"}) \/ Drain

Spec == Init /\ [][Next]_vars

\* The event loop runs every task that is ready, the wait of line 123 ends by
\* an item or by its timeout, and every awaited call of the callback returns
\* or raises; progress_hook is called as often as the executor likes.
Fairness ==
    \A t \in JobIds :
        /\ WF_vars(process_queue_start(t))
        /\ WF_vars(process_queue_dispatch(t))
        /\ WF_vars(process_download_create(t))
        /\ WF_vars(process_download_emit_start(t))
        /\ WF_vars(process_download_run(t))
        /\ WF_vars(process_download_persist_completed(t))
        /\ WF_vars(process_download_emit_complete(t))
        /\ WF_vars(process_download_persist_failed(t))
        /\ WF_vars(process_download_emit_error(t))

FairSpec == Spec /\ Fairness

\* The engine with the retention sweep, which no caller in src/ triggers.
NextSweep == Next \/ clear_completed

SpecSweep == Init /\ [][NextSweep]_vars

\* The engine with every session and with previews that may raise.
NextClients == Handlers(Sids \ {NoSid}, Probes) \/ Drain

SpecClients == Init /\ [][NextClients]_vars

\* ------------------------------------------------------------ vocabulary
CallbackPcs == {"create_record", "emit_start", "run", "persist_completed",
                "emit_complete", "persist_failed", "emit_error"}

\* The tasks that are between line 133 and line 147 of _process_queue.
Executing == {t \in JobIds : pc[t] \in CallbackPcs}

Dispatched == SeqToSet(dispatched)

\* The drain loop took the job and is through with it.
Finished(j) == j \in Dispatched /\ \A t \in JobIds : item[t] # j

\* A record with this id is in the live index in state Queued.
IsQueued(j) == InItems(j) /\ status[j] = QUEUED

\* The Queued records in the order of the live index.
QueuedRecords == Filter(items, {j \in JobIds : status[j] = QUEUED})

\* ------------------------------------------------------------------ claims

\* The jobs that are Active: those a drain task is executing the callback
\* for, and the records of the live index whose status is DOWNLOADING.
ActiveJobs ==
    {item[t] : t \in Executing} \cup {j \in JobIds : InItems(j) /\ status[j] = DOWNLOADING}

\* C1: in every reachable state at most one job is Active: at most one drain
\* task is inside the dispatch section, at most one job is executed or marked
\* DOWNLOADING in the live index, and that job is the current job.
C1_AtMostOneActive ==
    /\ Cardinality(Executing) <= 1
    /\ Cardinality(ActiveJobs) <= 1
    /\ \A j \in ActiveJobs : current = j

\* C1 witness: a job is Active while another one is Queued and a second
\* drain task, created by the second admission, is waiting to start.
C1_Witness ==
    /\ current # NoJob
    /\ current \in ActiveJobs
    /\ \E j \in JobIds : IsQueued(j)
    /\ \E t \in JobIds : pc[t] = "scheduled"

\* C2: a job for which cancel returned True is never dispatched: it is never
\* the current job, never set to DOWNLOADING and never handed to the callback.
C2_CancelledNeverDispatched ==
    \A j \in cancelled :
        /\ current # j
        /\ status[j] # DOWNLOADING
        /\ j \notin Dispatched
        /\ \A t \in JobIds : item[t] # j

\* C3: strict FIFO: jobs are dispatched in the order of their admission (job
\* ids are given in admission order), and no job is dispatched while a job
\* admitted before it is still waiting.
C3_FifoDispatch ==
    /\ \A i, k \in 1..Len(dispatched) : i < k => dispatched[i] < dispatched[k]
    /\ \A j \in Dispatched : \A i \in 1..(j - 1) : i \in Dispatched \/ i \in cancelled

\* C3 witness: two jobs have been admitted and both
\* have been dispatched.
C3_Witness ==
    /\ Len(dispatched) >= 2
    /\ admitted >= 2

\* C4: cancel(id) returns True exactly when, at the call, a record with that
\* id is in the live index in state Queued, that is when the job was admitted
\* and neither dispatched nor cancelled; it returns False otherwise.
C4_CancelTrueIffQueued ==
    [][\A j \in JobIds :
          cancel(j) =>
            /\ (ret' = ReturnedTrue) <=> IsQueued(j)
            /\ (ret' = ReturnedTrue) <=>
                 (j <= admitted /\ j \notin Dispatched /\ j \notin cancelled)
            /\ ret' \in {ReturnedTrue, ReturnedFalse}]_vars

\* C4 witness: cancel has returned True for one job and has just returned
\* False while another job is Active.
C4_Witness ==
    /\ ret = ReturnedFalse
    /\ cancelled # {}
    /\ current # NoJob
    /\ status[current] = DOWNLOADING

\* C5: terminal states are absorbing: once the status of a job is COMPLETED
\* or FAILED (a cancelled record is left FAILED), no step changes it.
C5_TerminalAbsorbing ==
    [][\A j \in JobIds :
          status[j] \in {COMPLETED, FAILED} => status'[j] = status[j]]_vars

\* C6: get_position gives the Queued records of the live index exactly the
\* positions 1..k in admission order, and 0 to the Active job.
C6_PositionsAreRanks ==
    /\ \A i \in 1..Len(QueuedRecords) : get_position(QueuedRecords[i]) = i
    /\ \A i, k \in 1..Len(QueuedRecords) : i < k => QueuedRecords[i] < QueuedRecords[k]
    /\ \A j \in JobIds : IsQueued(j) => j \in SeqToSet(QueuedRecords)
    /\ \A j \in ActiveJobs : get_position(j) = 0

\* C6 witness: one job is Active and another one is Queued behind it.
C6_Witness ==
    /\ current # NoJob
    /\ status[current] = DOWNLOADING
    /\ Len(QueuedRecords) >= 1

\* C7: get_position is the not-found sentinel for every id that is neither
\* Active (status DOWNLOADING) nor Queued in the live index.
C7_NotFoundUnlessActiveOrQueued ==
    \A j \in JobIds :
        ~(status[j] = DOWNLOADING \/ IsQueued(j)) => get_position(j) = NotFound

\* C8: the drain loop goes on after every job, Completed or Failed, so every
\* admitted job that is not cancelled is eventually dispatched, when every
\* awaited call ends and the drain task is scheduled.
C8_EveryAdmittedJobDispatched ==
    \A j \in JobIds : IsQueued(j) ~> (j \in Dispatched \/ j \in cancelled)

\* C8 witness: a job ended Failed and a job admitted after it is the current
\* job.
C8_Witness ==
    \E i, j \in JobIds :
        /\ i < j
        /\ Finished(i)
        /\ status[i] = FAILED
        /\ i \notin cancelled
        /\ current = j
        /\ status[j] = DOWNLOADING

\* The error detail kept for a job: the error_message of its row.
ErrorDetail(j) == db[j].error

\* C9: whenever a dispatched job has ended Failed, the message of the fault
\* that made it fail is stored as the error detail of that job.
C9_FailedStoresFaultMessage ==
    \A j \in JobIds :
        (Finished(j) /\ status[j] = FAILED) =>
            (fault[j] # "" /\ ErrorDetail(j) = fault[j])

\* The executor returned and left a file, and nothing but the update of the
\* row to COMPLETED raised, if anything did.
ExecutorSucceeded(j) ==
    /\ Finished(j)
    /\ j \notin cancelled
    /\ fault[j] \in {"", UpdateError}

\* C10: when the executor succeeded for a job, its record ends COMPLETED with
\* progress 100, also when the update of its row raised.
C10_PersistFaultKeepsCompleted ==
    \A j \in JobIds :
        ExecutorSucceeded(j) => (status[j] = COMPLETED /\ progress[j] = 100)

\* The exceptions of the Record Store and of the delivery of events.
StoreOrDeliveryFaults ==
    {CreateError, EmitStartError, UpdateError, EmitCompleteError, EmitErrorError}

\* The tasks that are inside `while True` of _process_queue.
DrainTasks == {t \in JobIds : pc[t] \in {"get"} \cup CallbackPcs}

\* C11: after a Record Store or delivery fault during a job, the drain loop is
\* not interrupted and the admitting caller is not affected: the engine still
\* has its drain task exactly while _processing is set, every pending item
\* has a task that will take it, and a request is still admitted.
C11_FaultsLeaveDrainRunning ==
    (\E j \in JobIds : fault[j] \in StoreOrDeliveryFaults) =>
        /\ processing <=> DrainTasks # {}
        /\ queue # <<>> =>
              \/ DrainTasks # {}
              \/ ~processing /\ \E t \in JobIds : pc[t] = "scheduled"
        /\ admitted < MaxJobs => ENABLED start_download(DefaultRequest)

\* C11 witness: a job ended after a Record Store or delivery fault, and a
\* job admitted after it is the current job.
C11_Witness ==
    \E i, j \in JobIds :
        /\ i < j
        /\ fault[i] \in StoreOrDeliveryFaults
        /\ Finished(i)
        /\ current = j
        /\ j \notin cancelled
        /\ \E t \in JobIds : item[t] = j /\ pc[t] = "run"

\* C12: for every terminal transition of a job in memory, an update to that
\* terminal status is issued to the Record Store: FAILED for a cancelled job,
\* and the final status of every job the drain loop is through with.
C12_TerminalTransitionsPersisted ==
    \A j \in JobIds :
        /\ (j \in cancelled /\ j \notin Dispatched) => FAILED \in persisted[j]
        /\ (Finished(j) /\ status[j] \in {COMPLETED, FAILED}) =>
               status[j] \in persisted[j]

\* C13: while a job is Active, no step lowers the progress of its record.
C13_ProgressMonotonicWhileActive ==
    [][\A j \in JobIds :
          (status[j] = DOWNLOADING /\ status'[j] = DOWNLOADING) =>
              progress'[j] >= progress[j]]_vars

\* C14: a record whose status is COMPLETED has progress exactly 100.
C14_CompletedHasProgress100 ==
    \A j \in JobIds : status[j] = COMPLETED => progress[j] = 100

\* C14 witness: a job whose row was updated to COMPLETED is COMPLETED in
\* memory and the drain loop is through with it.
C14_Witness ==
    \E j \in JobIds :
        /\ status[j] = COMPLETED
        /\ Finished(j)
        /\ db[j].status = COMPLETED

\* C15: a record is created Queued with progress 0, keeps both while it
\* waits, and has progress 0 when the drain loop has just made it Active.
C15_QueuedAndDispatchedAtZero ==
    /\ \A j \in 1..admitted :
          (j \notin Dispatched /\ j \notin cancelled) =>
              (InItems(j) /\ status[j] = QUEUED /\ progress[j] = 0)
    /\ \A t \in JobIds :
          pc[t] = "create_record" =>
              (status[item[t]] = DOWNLOADING /\ progress[item[t]] = 0)

\* C15 witness: a job has just been made Active after an earlier job whose
\* progress was reported.
C15_Witness ==
    \E t, i \in JobIds :
        /\ pc[t] = "create_record"
        /\ i # item[t]
        /\ progress[i] # 0

\* C16: the progress of every record lies in 0..100.
C16_ProgressInRange ==
    \A j \in JobIds : progress[j] \in 0..100

\* The requests with a value outside its enumeration.
UnrecognizedRequests ==
    {req \in Requests :
        \/ req.format \notin DownloadFormat
        \/ req.video_quality \notin VideoQuality
        \/ req.audio_quality \notin AudioQuality}

\* C17: a request with an unrecognized format or quality is turned down and
\* no job is made of it: the live index, the pending queue, the records and
\* the state of the drain loop are unchanged by it.
C17_UnrecognizedRequestRejected ==
    [][/\ \A req \in UnrecognizedRequests :
             (\/ start_download(req)
              \/ \E s \in Sids \ {NoSid} : socket_start_download(s, req)) =>
                 ret' = Rejected
       /\ ret' = Rejected =>
             UNCHANGED <<admitted, items, queue, status, progress, sid, current,
                         processing, pc, item, db, dispatched>>]_vars

\* C17 witness: a request has just been turned down while a job is Active
\* and another one is waiting.
C17_Witness ==
    /\ ret = Rejected
    /\ current # NoJob
    /\ \E j \in JobIds : IsQueued(j)

\* C18: when add returns job id J, the record of J is in the live index and
\* get_position(J) is not the not-found sentinel.
C18_VisibleWhenAddReturns ==
    [][\A s \in Sids, ti \in Titles :
          add(s, ti) =>
             /\ admitted' = admitted + 1
             /\ admitted' \in SeqToSet(items')
             /\ (get_position(admitted))' >= 1]_vars

\* C18 witness: the job admitted last, while another one is Active, is in
\* the live index with a position.
C18_Witness ==
    /\ admitted >= 2
    /\ current # NoJob
    /\ current # admitted
    /\ admitted \notin Dispatched
    /\ InItems(admitted)
    /\ get_position(admitted) >= 1

\* C19: while the executor of the Active job has not returned, a request is
\* still admitted and every cancel call still completes; position queries
\* are computed from the index alone.
C19_HandlersRunDuringExecution ==
    (\E t \in JobIds : pc[t] = "run") =>
        /\ admitted < MaxJobs =>
              /\ ENABLED start_download(DefaultRequest)
              /\ \A s \in Sids \ {NoSid} : ENABLED socket_start_download(s, DefaultRequest)
        /\ \A j \in JobIds : ENABLED cancel(j)
        /\ \A j \in JobIds : get_position(j) \in {NotFound} \cup 0..MaxJobs

\* C19 witness: the executor of the Active job has reported progress and has
\* not returned, another job is waiting, and a cancel call has just returned.
C19_Witness ==
    /\ \E t \in JobIds : pc[t] = "run" /\ progress[item[t]] # 0
    /\ \E j \in JobIds : IsQueued(j)
    /\ ret = ReturnedFalse

\* J1 was admitted and not cancelled, and its execution has not got further
\* than the executor run: the executor blocks.
J1Blocked ==
    /\ admitted >= 1
    /\ 1 \notin cancelled
    /\ fault[1] = ""
    /\ 1 \in Dispatched =>
          \E t \in JobIds : item[t] = 1 /\ pc[t] \in {"create_record", "emit_start", "run"}

\* C20: J1 is admitted and its executor blocks, J2 is admitted: as long as J2
\* is not cancelled it is Queued, so cancel(J2) returns True; once cancelled
\* it is never dispatched; and J1, once dispatched, remains Active.
C20_CancelSecondWhileFirstBlocks ==
    (J1Blocked /\ admitted >= 2) =>
        /\ 2 \notin cancelled => (IsQueued(2) /\ CancelAllowed(2))
        /\ 2 \in cancelled =>
              (2 \notin Dispatched /\ current # 2 /\ status[2] # DOWNLOADING)
        /\ 1 \in Dispatched => (current = 1 /\ status[1] = DOWNLOADING)

\* C20 witness: J1 is in the executor run, and cancel(J2) has just returned
\* True.
C20_Witness ==
    /\ J1Blocked
    /\ \E t \in JobIds : item[t] = 1 /\ pc[t] = "run"
    /\ 2 \in cancelled
    /\ ret = ReturnedTrue

\* The job ids listed in the view of get_queue_status.
ViewIds == {get_queue_status.items[i].job_id : i \in 1..Len(get_queue_status.items)}

\* C21: once cancel has returned True for a job, get_item finds nothing for
\* it and it is not among the items of get_queue_status.
C21_CancelledEvicted ==
    \A j \in cancelled : get_item(j) = NoJob /\ j \notin ViewIds

\* C21 witness: a cancelled job is the current job of the drain loop.
C21_Witness ==
    \E j \in cancelled : current = j

\* The items of the view after the one with position 0, if the view has one.
ViewRest ==
    LET its == get_queue_status.items
    IN IF its # <<>> /\ its[1].position = 0 THEN Tail(its) ELSE its

\* C22: the view of get_queue_status is consistent: no id is listed twice,
\* only the first item can have position 0, the other items are the Queued
\* records in admission order with the positions 1..k, and total is the
\* number of items.
C22_QueueViewConsistent ==
    LET its == get_queue_status.items IN
    /\ \A a, b \in 1..Len(its) : a # b => its[a].job_id # its[b].job_id
    /\ \A a \in 1..Len(its) : its[a].position = 0 => a = 1
    /\ Len(ViewRest) = Len(QueuedRecords)
    /\ \A i \in 1..Len(ViewRest) :
          /\ ViewRest[i].job_id = QueuedRecords[i]
          /\ ViewRest[i].position = i
          /\ ViewRest[i].status = QUEUED
    /\ \A a, b \in 1..Len(ViewRest) : a < b => ViewRest[a].job_id < ViewRest[b].job_id
    /\ get_queue_status.total = Len(its)

\* C22 witness: the view lists the current job first, with position 0, and
\* a Queued record after it.
C22_Witness ==
    LET its == get_queue_status.items IN
    /\ Len(its) >= 2
    /\ its[1].position = 0
    /\ its[1].job_id = current

\* C23: a record leaves the index only by a cancel that finds it Queued or
\* by clear_completed; clear_completed removes only COMPLETED and FAILED
\* records, changes no record, and leaves the Queued and Active records and
\* their positions as they are.
C23_RemovalOnlyByCancelOrSweep ==
    [][/\ \A j \in JobIds :
             (InItems(j) /\ j \notin SeqToSet(items')) =>
                 \/ cancel(j) /\ IsQueued(j) /\ ret' = ReturnedTrue
                 \/ clear_completed /\ status[j] \in {COMPLETED, FAILED}
       /\ clear_completed =>
             /\ status' = status
             /\ progress' = progress
             /\ \A j \in JobIds :
                   (InItems(j) /\ status[j] \in {QUEUED, DOWNLOADING}) =>
                       /\ j \in SeqToSet(items')
                       /\ (get_position(j))' = get_position(j)]_vars

\* C23 witness: a job that ended and was not cancelled is gone from the
\* index, while the Active record is still in it.
C23_Witness ==
    /\ \E j \in JobIds : Finished(j) /\ j \notin cancelled /\ ~InItems(j)
    /\ current # NoJob /\ InItems(current) /\ status[current] = DOWNLOADING

\* C24: a row has a completion timestamp only when its status is COMPLETED;
\* a FAILED row has none.
C24_TimestampOnlyOnCompleted ==
    \A j \in JobIds : db[j].completed_at => db[j].status = COMPLETED

\* What the executor did for a job: it returned with files ("ok"), it raised
\* or left no file ("error"), or it has not ended.
ExecutorOutcome(j) ==
    IF COMPLETED \in persisted[j] THEN "ok"
    ELSE IF fault[j] \in {ExecutorError, NoFileError} THEN "error"
    ELSE "none"

\* The job ended, was not cancelled, and no Record Store call raised first.
EndedWithoutStoreFault(j) ==
    /\ Finished(j)
    /\ j \notin cancelled
    /\ fault[j] \notin {CreateError, UpdateError}

\* C25: the terminal state of a record does not depend on an observer: a job
\* without sid and a job with one, for which the executor did the same, end
\* in the same status, with the same progress.
C25_TerminalStateIgnoresObserver ==
    \A i, j \in JobIds :
        (/\ EndedWithoutStoreFault(i) /\ EndedWithoutStoreFault(j)
         /\ sid[i] = NoSid /\ sid[j] # NoSid
         /\ ExecutorOutcome(i) # "none"
         /\ ExecutorOutcome(i) = ExecutorOutcome(j)) =>
            (status[i] = status[j] /\ (status[i] = COMPLETED => progress[i] = progress[j]))

TerminalEvents == {DownloadCompleteEvent, DownloadErrorEvent}

\* The terminal events sent for a job.
TerminalEventsOf(j) == {e \in emitted : e[2] = j /\ e[1] \in TerminalEvents}

\* C27: at most one terminal event, download_complete or download_error, is
\* sent for a job, also when a delivery or Record Store call raises.
C27_AtMostOneTerminalEvent ==
    \A j \in JobIds : Cardinality(TerminalEventsOf(j)) <= 1

\* C27 witness: the download_complete emit of a job raised, and its
\* download_error event has been sent.
C27_Witness ==
    \E j \in JobIds :
        /\ fault[j] = EmitCompleteError
        /\ <<DownloadErrorEvent, j, sid[j]>> \in emitted

\* C28: when the preview raises for a recognized request, the job is still
\* admitted: a new record, Queued, in the index, with no title.
C28_ProbeFailureAdmits ==
    [][\A req \in Requests \ UnrecognizedRequests :
          (\/ start_download_probed(req, "raises")
           \/ \E s \in Sids \ {NoSid} : socket_start_download_probed(s, req, "raises")) =>
              /\ admitted' = admitted + 1
              /\ admitted' \in SeqToSet(items')
              /\ status'[admitted'] = QUEUED
              /\ title'[admitted'] = NoTitle]_vars

\* C28 witness: a job admitted without title is waiting behind one that was
\* admitted with the title of its preview.
C28_Witness ==
    \E i, j \in JobIds :
        /\ i < j
        /\ title[i] # NoTitle
        /\ IsQueued(j)
        /\ title[j] = NoTitle

\* C29: a cancel that returns False changes nothing: not the index, no
\* record, not the pending queue, the current job or the drain flag.
C29_CancelFalseChangesNothing ==
    [][\A j \in JobIds :
          (cancel(j) /\ ret' = ReturnedFalse) =>
              UNCHANGED <<admitted, items, queue, status, progress, sid, title,
                          current, processing, pc, item, db, cancelled>>]_vars

\* C29 witness: cancel has just returned False while a COMPLETED record is in
\* the index and another job is Active.
C29_Witness ==
    /\ ret = ReturnedFalse
    /\ \E j \in JobIds : InItems(j) /\ status[j] = COMPLETED /\ Finished(j)
    /\ current # NoJob /\ status[current] = DOWNLOADING

\* C30: whenever the drain loop dispatches a job while Queued records exist,
\* the job it takes is the one get_position gave position 1.
C30_PositionOneIsNext ==
    [][\A t \in JobIds :
          (process_queue_dispatch(t) /\ QueuedRecords # <<>>) =>
              get_position(QueueGet(queue)) = 1]_vars

\* C31: a job the drain loop is through with is COMPLETED or FAILED, and a
\* record that is DOWNLOADING is the one of the current job.
C31_FinishedIsTerminal ==
    /\ \A j \in JobIds : Finished(j) => status[j] \in {COMPLETED, FAILED}
    /\ \A j \in JobIds : status[j] = DOWNLOADING => current = j

\* The first item of the view is the one of job j, at position 0.
ViewHeadIs(j) ==
    LET its == get_queue_status.items
    IN its # <<>> /\ its[1].job_id = j /\ its[1].position = 0

\* C32: the processing field of get_queue_status is empty or names the item
\* listed at position 0, and a job whose get_position is 0 is that item.
C32_ProcessingIsPositionZero ==
    /\ get_queue_status.processing # NoJob => ViewHeadIs(get_queue_status.processing)
    /\ \A j \in JobIds : get_position(j) = 0 => ViewHeadIs(j)

\* C33: at most one task is inside the drain loop; a task that starts while
\* the flag is set returns and takes nothing; and when the task inside the
\* loop leaves it, every other task has returned, so of the tasks scheduled
\* while the engine was idle exactly one has taken jobs.
C33_OneDrainWorker ==
    [][/\ Cardinality(DrainTasks) <= 1
       /\ (Cardinality(DrainTasks) <= 1)'
       /\ \A t \in JobIds :
            /\ (process_queue_start(t) /\ processing) =>
                  (pc'[t] = "none" /\ UNCHANGED <<queue, dispatched, current, status, item>>)
            /\ (t \in DrainTasks /\ pc'[t] = "none") =>
                  \A u \in JobIds \ {t} : pc[u] = "none"]_vars

\* C33 witness: two tasks were scheduled while the engine was idle; one is
\* executing a job and the other has not had its first step yet.
C33_Witness ==
    \E t, u \in JobIds :
        /\ t # u
        /\ pc[t] \in CallbackPcs
        /\ pc[u] = "scheduled"
        /\ processing

\* C34: whenever the pending queue holds an item, a drain task is inside the
\* loop with the flag set, or a task is scheduled to start.
C34_NoLostWakeup ==
    queue # <<>> =>
        \/ processing /\ DrainTasks # {}
        \/ \E t \in JobIds : pc[t] = "scheduled"

\* C34 witness: an item is pending while the drain task, through with an
\* earlier job, is at the one second wait, and no task is scheduled.
C34_Witness ==
    /\ queue # <<>>
    /\ dispatched # <<>>
    /\ \E t \in JobIds : pc[t] = "get"
    /\ \A t \in JobIds : pc[t] # "scheduled"

\* C35: the position of a record that stays Queued never increases, whatever
\* is admitted, cancelled, dispatched or swept.
C35_QueuedPositionNeverIncreases ==
    [][\A j \in JobIds :
          (IsQueued(j) /\ IsQueued(j)') =>
              /\ get_position(j) >= 1
              /\ (get_position(j))' >= 1
              /\ (get_position(j))' <= get_position(j)]_vars

\* C35 witness: a Queued record is at position 1 after the record admitted
\* before it has ended and has been swept from the index.
C35_Witness ==
    \E i, j \in JobIds :
        /\ i < j
        /\ IsQueued(j) /\ get_position(j) = 1
        /\ Finished(i) /\ i \notin cancelled /\ ~InItems(i)

\* C36: for a job the drain loop is through with, with no Record Store call
\* that raised, the record and the row are both COMPLETED or both FAILED.
C36_MemoryAgreesWithStore ==
    \A j \in JobIds :
        EndedWithoutStoreFault(j) =>
            /\ status[j] \in {COMPLETED, FAILED}
            /\ db[j].status = status[j]

====
